---- MODULE Spec2Model ----
(***************************************************************************)
(* Model of data_processing_functional_connectivity.py: the four batch     *)
(* pipelines (dynamic_functional_connectivity and the PCA, leading-        *)
(* eigenvector and LLE reducers), convert_to_phases, and                   *)
(* functional_connectivity_dynamics.                                       *)
(*                                                                         *)
(* Numbers.  Angles are integers in units of pi/3 (PI == 3), so that every *)
(* cosine the model needs is a multiple of 1/2; cosine values are integers *)
(* in units of 1/2 (Cos(0) = 2 stands for 1.0).  NaN is a value of its own *)
(* with the IEEE rules: it propagates through arithmetic and every         *)
(* comparison with it is false.                                            *)
(*                                                                         *)
(* Library calls (genfromtxt, hilbert, PCA, eig, locally_linear_embedding) *)
(* are modelled by their contract: which inputs they reject, and the shape *)
(* and indexing of what they return.  The numbers a reducer returns are    *)
(* kept symbolic: a feature-vector position holds the pair <<row, col>>    *)
(* of the library's output array it was copied from, together with the     *)
(* matrix the library was fitted on.                                       *)
(***************************************************************************)
EXTENDS Integers, Sequences, FiniteSets, TLC

\* ------------------------------------------------------------- bounds
MaxSubjects == 2
MaxT == 2
SmallAreas == 3
FeatureLen == 2
MaxValue == 2
SCALE == 1000
MaxTR == 2

\* -------------------------------------------------- program constants
N_NEIGHBORS == 12
N_COMPONENTS == 2
NaN == 999

Variants == {"dfc", "pca", "eig", "lle"}

\* ------------------------------------------------ float64 arithmetic
IsNaN(x) == x = NaN

FSub(x, y) == IF IsNaN(x) \/ IsNaN(y) THEN NaN ELSE x - y

FAbs(x) == IF IsNaN(x) THEN NaN ELSE IF x < 0 THEN 0 - x ELSE x

FGt(x, y) == ~IsNaN(x) /\ ~IsNaN(y) /\ x > y

FEq(x, y) == ~IsNaN(x) /\ ~IsNaN(y) /\ x = y

\* np.cos on multiples of pi/3, in units of 1/2
CosTable == <<2, 1, -1, -2, -1, 1>>

\* np.pi: half a turn of the table
PI == Len(CosTable) \div 2

Cos(a) == IF IsNaN(a) THEN NaN ELSE CosTable[(a % (2 * PI)) + 1]

ONE == Cos(0)

\* ------------------------------------------------------- input files
\* np.angle returns a value in (-pi, pi]
Wrap(x) ==
    LET m == x % (2 * PI) IN IF m > PI THEN m - 2 * PI ELSE m

\* <<dRows, dCols>>: the table's shape relative to (t_phases, brain_areas)
Shapes == {<<0, 0>>, <<0, 1>>, <<0, -1>>, <<1, 0>>, <<-1, 0>>}

\* <<p0, f0, fr>>: column c has phase p0 + c * (f0 + r * fr) at row r
Patterns == {<<0, 1, 1>>, <<2, 2, 1>>}

NoColumn == 0 - 1

\* The tables a subject's path can hold.  nanCol is the column that has a
\* cell genfromtxt could not parse (NoColumn: every cell is a number).
Files(T, A) ==
    { [rows |-> T + s[1], cols |-> A + s[2], nanCol |-> b,
       p0 |-> p[1], f0 |-> p[2], fr |-> p[3]] :
          s \in {x \in Shapes : T + x[1] >= 0 /\ A + x[2] >= 0},
          b \in {NoColumn, 0}, p \in Patterns }

\* np.angle(signal.hilbert(array[:, c]))[r]: a NaN anywhere in the column
\* makes the FFT, and so every phase of the column, NaN.
AnalyticPhase(file, r, c) ==
    IF c = file.nanCol THEN NaN
    ELSE Wrap(file.p0 + c * (file.f0 + r * file.fr))

\* What the loop of convert_to_phases does with the loaded table.
\* genfromtxt squeezes its result: a table with one row or one column is
\* 1-D (or 0-D, or empty) and array[:, area] raises IndexError.  The slice
\* assignment phases[area, :] = ... raises ValueError unless the column has
\* exactly t_phases entries.  Columns beyond brain_areas are never read.
ConvertOutcomeTruncatingRows(file, A, T) ==
    IF A = 0 THEN "ok"
    ELSE IF file.rows < 2 \/ file.cols < 2 THEN "IndexError"
    ELSE IF file.rows < T THEN "ValueError"
    ELSE IF file.cols < A THEN "IndexError"
    ELSE "ok"

ConvertOutcome(file, A, T) ==
    IF A = 0 THEN "ok"
    ELSE IF file.rows < 2 \/ file.cols < 2 THEN "IndexError"
    ELSE IF file.rows # T THEN "ValueError"
    ELSE IF file.cols < A THEN "IndexError"
    ELSE "ok"

PhasesOf(file, A, T) ==
    [a \in 0..(A - 1) |-> [r \in 0..(T - 1) |-> AnalyticPhase(file, r, a)]]

\* --- filter_signal
\* band edges in hundredths of Hz, and the order of the Butterworth filter
LOW_HZ == 4
HIGH_HZ == 7
ORDER == 2

TRValues == 1..MaxTR

\* Wn = [0.04 / nyq, 0.07 / nyq] with nyq = 1 / (2 * TR): x / nyq is
\* x * 2 * TR (kept in hundredths)
BandEdges(tr) == [low |-> LOW_HZ * 2 * tr, high |-> HIGH_HZ * 2 * tr]

\* signal.lfilter(b, a, time_series): a causal filter, its output lags its
\* input by an amount the order and the band edges (hence TR) set; every
\* phase of a filtered column is shifted by that lag, which is never a
\* whole turn.
FilterLag(tr) == 1 + ((ORDER * BandEdges(tr).low) % (2 * PI - 1))

FilterSignal(file, tr) == [file EXCEPT !.p0 = file.p0 + FilterLag(tr)]

\* Whether the loop of convert_to_phases passes a column through
\* filter_signal.  The call is a comment (line 53): no argument enables it.
UsesFilter(A, T, tr) == FALSE

\* the matrix convert_to_phases builds when called with repetition time tr
ConvertedPhases(file, A, T, tr) ==
    IF UsesFilter(A, T, tr) THEN PhasesOf(FilterSignal(file, tr), A, T)
    ELSE PhasesOf(file, A, T)


\* ------------------------------------------------- coherence builder
Areas(A) == 0..(A - 1)

ZeroMatrix(A) == [c \in Areas(A) \X Areas(A) |-> 0]

\* The angle the loop body hands to np.cos for phases p and q:
\* d = |p - q|, replaced by 2*pi - d when d > pi.
CosineAngleUnwrapped(p, q) == FAbs(FSub(p, q))

CosineAngle(p, q) ==
    LET d == FAbs(FSub(p, q))
    IN  IF FGt(d, PI) THEN FSub(2 * PI, d) ELSE d

\* One pass of the loop body: dFC[i, z] = np.cos(...)
WriteCellUpperOnly(buf, ph, tt, i, z) ==
    IF z < i THEN buf
    ELSE [dFC   |-> [buf.dFC EXCEPT ![<<i, z>>] = Cos(CosineAngle(ph[i][tt], ph[z][tt]))],
          angle |-> [buf.angle EXCEPT ![<<i, z>>] = CosineAngle(ph[i][tt], ph[z][tt])]]

WriteCellIfUnset(buf, ph, tt, i, z) ==
    IF buf.dFC[<<i, z>>] # 0 THEN buf
    ELSE [dFC   |-> [buf.dFC EXCEPT ![<<i, z>>] = Cos(CosineAngle(ph[i][tt], ph[z][tt]))],
          angle |-> [buf.angle EXCEPT ![<<i, z>>] = CosineAngle(ph[i][tt], ph[z][tt])]]

WriteCell(buf, ph, tt, i, z) ==
    [dFC   |-> [buf.dFC EXCEPT ![<<i, z>>] = Cos(CosineAngle(ph[i][tt], ph[z][tt]))],
     angle |-> [buf.angle EXCEPT ![<<i, z>>] = CosineAngle(ph[i][tt], ph[z][tt])]]

\* The inner loop: for z in range(0, brain_areas), cells of row i from z on.
\* (The test on DOMAIN only makes TLC evaluate buf before it recurses.)
RECURSIVE FillRow(_, _, _, _, _, _)
FillRow(buf, ph, tt, A, i, z) ==
    IF z >= A \/ DOMAIN buf = {} THEN buf
    ELSE FillRow(WriteCell(buf, ph, tt, i, z), ph, tt, A, i, z + 1)

\* The outer loop: for i in range(0, brain_areas), rows from i on.
RECURSIVE FillCells(_, _, _, _, _)
FillCells(buf, ph, tt, A, i) ==
    IF i >= A \/ DOMAIN buf = {} THEN buf
    ELSE FillCells(FillRow(buf, ph, tt, A, i, 0), ph, tt, A, i + 1)

HasNaN(M) == \E c \in DOMAIN M : IsNaN(M[c])

\* ----------------------------------------------------------- reducers
\* ndarray.flatten() / list concatenation of the rows of a rows x cols
\* array: position k (1-based here) holds element <<row, col>>.
FlattenColumnMajor(rows, cols) ==
    [k \in 1..(rows * cols) |-> <<(k - 1) % rows, (k - 1) \div rows>>]

Flatten(rows, cols) ==
    [k \in 1..(rows * cols) |-> <<(k - 1) \div cols, (k - 1) % cols>>]

\* One row of a 2-D array as a list
Row(r, cols) == [k \in 1..cols |-> <<r, k - 1>>]

\* One column of a 2-D array
Column(c, rows) == [k \in 1..rows |-> <<k - 1, c>>]

\* pca_dict['components'][0] + pca_dict['components'][1]; components_ is
\* n_components x n_features
PcaVectorSwapped(A) == Row(1, A) \o Row(0, A)

PcaVector(A) == Row(0, A) \o Row(1, A)

\* PCA(n_components=2).fit(dFC): input validation
PcaOutcome(M, A) ==
    IF HasNaN(M) THEN "ValueError: NaN"
    ELSE IF N_COMPONENTS > A THEN "ValueError: n_components"
    ELSE "ok"

\* np.squeeze(lle.flatten()); lle is n_samples x n_components
LleVector(A) == Flatten(A, N_COMPONENTS)

\* manifold.locally_linear_embedding(dFC, n_neighbors=12, n_components=2)
LleOutcome(M, A) ==
    IF HasNaN(M) THEN "ValueError: NaN"
    ELSE IF N_COMPONENTS > A THEN "ValueError: n_components"
    ELSE IF N_NEIGHBORS >= A THEN "ValueError: n_neighbors"
    ELSE "ok"

\* linalg.eig(dFC) refuses NaN and Inf
EigOutcome(M) == IF HasNaN(M) THEN "LinAlgError" ELSE "ok"

\* The eigenvalue lists the solver is taken to return for an A x A matrix:
\* a leading pattern padded with zeros (the solver's order is its own).
EigenPatterns == {<<1, 0, 0>>, <<0, 1, 1>>, <<0, 1, 0>>, <<1, 1, 0>>}

EigenOutputs(A) ==
    { [k \in 1..A |-> IF k <= Len(p) THEN p[k] ELSE 0] : p \in EigenPatterns }

SeqMax(vals) == CHOOSE m \in {vals[k] : k \in 1..Len(vals)} :
                    \A k \in 1..Len(vals) : vals[k] <= m

\* ndarray.argmax(): 0-based index of the first maximal entry
ArgMaxLast(vals) ==
    (CHOOSE k \in 1..Len(vals) :
        /\ vals[k] = SeqMax(vals)
        /\ \A j \in (k + 1)..Len(vals) : vals[j] # SeqMax(vals)) - 1

ArgMax(vals) ==
    (CHOOSE k \in 1..Len(vals) :
        /\ vals[k] = SeqMax(vals)
        /\ \A j \in 1..(k - 1) : vals[j] # SeqMax(vals)) - 1

\* eigen_vects[:, eigen_vals.argmax()]
LeadingEig(vals, A) == Column(ArgMax(vals), A)

\* A slot [n, t, :] of the trajectory tensor
ZeroSlot(L) == [fit |-> <<>>, at |-> [k \in 1..L |-> <<NoColumn, NoColumn>>]]

FeatureLength(v, A) ==
    CASE v = "pca" -> A * 2
      [] v = "lle" -> A * 2
      [] v = "eig" -> A
      [] OTHER     -> 0

ZeroTensor(v, S, T, A) ==
    [s \in 0..(S - 1) |-> [k \in 0..(T - 1) |-> ZeroSlot(FeatureLength(v, A))]]

\* ------------------------------------- functional_connectivity_dynamics
\* float64 results of the similarity computation.  A finite value is an
\* integer count of 1/SCALE; every operation that is inexact in float64
\* (sqrt, *, /) rounds its exact result to the nearest such count, as
\* float64 rounds to the nearest representable number.  Dot products of
\* the small integer vectors used here are exact, in float64 as here.
Float(val) == [kind |-> "finite", val |-> val]

Zero == Float(0)

One == Float(SCALE)

NaNValue == [kind |-> "nan", val |-> 0]

InfValue(sign) == [kind |-> "inf", val |-> sign]

\* nearest integer to a / b, for b > 0 (ties away from zero)
RoundDiv(a, b) ==
    IF a >= 0 THEN (2 * a + b) \div (2 * b)
    ELSE 0 - ((2 * (0 - a) + b) \div (2 * b))

\* largest r in lo..hi with r * r <= x
RECURSIVE SqrtSearch(_, _, _)
SqrtSearch(x, lo, hi) ==
    IF lo >= hi THEN lo
    ELSE LET mid == (lo + hi + 1) \div 2
         IN  IF mid * mid <= x
             THEN SqrtSearch(x, mid, hi)
             ELSE SqrtSearch(x, lo, mid - 1)

\* nearest integer to sqrt(x), known to be at most hi
RoundSqrt(x, hi) ==
    LET r == SqrtSearch(x, 0, hi)
    IN  IF x - r * r > r THEN r + 1 ELSE r

\* np.dot(vec_1, vec_2)
RECURSIVE DotFrom(_, _, _)
DotFrom(v, w, k) ==
    IF k > Len(v) THEN 0 ELSE v[k] * w[k] + DotFrom(v, w, k + 1)

Dot(v, w) == DotFrom(v, w, 1)

\* np.linalg.norm(v), in counts of 1/SCALE
Norm(v) ==
    LET d == Dot(v, v) IN RoundSqrt(d * SCALE * SCALE, (d + 1) * SCALE)

\* np.linalg.norm(vec_1) * np.linalg.norm(vec_2), in counts of 1/SCALE
NormProduct(v, w) == RoundDiv(Norm(v) * Norm(w), SCALE)

\* float64 division of a dot product by a product of norms: 0/0 is NaN
\* and x/0 is +-inf (numpy warns, it does not raise)
DivideZeroCoerced(dot, prod) ==
    IF prod = 0 THEN Zero ELSE Float(RoundDiv(dot * SCALE * SCALE, prod))

Divide(dot, prod) ==
    IF prod = 0
    THEN IF dot = 0 THEN NaNValue ELSE InfValue(IF dot > 0 THEN 1 ELSE 0 - 1)
    ELSE Float(RoundDiv(dot * SCALE * SCALE, prod))

\* the body of the t2 loop: FCD[subject, t1, t2] = ...
FcdEntryFirstSubject(rc, s, t1, t2) ==
    Divide(Dot(rc[s][t1], rc[1][t2]), NormProduct(rc[s][t1], rc[1][t2]))

FcdEntry(rc, s, t1, t2) ==
    Divide(Dot(rc[s][t1], rc[s][t2]), NormProduct(rc[s][t1], rc[s][t2]))

\* reduced_components.shape
ShapeOf(rc) ==
    [n_subjects |-> Len(rc),
     t_phases |-> IF Len(rc) = 0 THEN 0 ELSE Len(rc[1]),
     brain_areas_2 |-> IF Len(rc) = 0 \/ Len(rc[1]) = 0 THEN 0 ELSE Len(rc[1][1])]

\* The tensors the function is called with: each subject's trajectory is a
\* vector <<a, 1, 0, ...>>, a from -1 up, rotated by one position per
\* timepoint, with the vector at one timepoint z replaced by the zero
\* vector (z = T: none).
BaseVector(a, L) == [j \in 1..L |-> IF j = 1 THEN a ELSE IF j = 2 THEN 1 ELSE 0]

Rotate(u, k) == [j \in 1..Len(u) |-> u[((j - 1 + k) % Len(u)) + 1]]

Trajectory(a, z, T, L) ==
    [k \in 1..T |-> IF k - 1 = z THEN [j \in 1..L |-> 0]
                    ELSE Rotate(BaseVector(a, L), k - 1)]

Trajectories(T, L) ==
    { Trajectory(a, z, T, L) : a \in (0 - 1)..MaxValue, z \in 0..T }

Tensors(S, T, L) == [1..S -> Trajectories(T, L)]

\* ---------------------------------------------------- persisted files
\* np.savez / np.savez_compressed / json.dump under a name: the file is
\* created or replaced.
Write(d, name, content) ==
    [x \in (DOMAIN d) \cup {name} |-> IF x = name THEN content ELSE d[x]]

PhasesName(s) == <<"phases", s>>
DfcNameSwapped(s, k) == <<"dFC", k, s>>

DfcName(s, k) == <<"dFC", s, k>>
PcaResultsName(s, k) == <<"PCA_results", s, k>>
LleErrorName(s, k) == <<"LLE_error", s, k>>
ComponentsName == <<"components_matrix">>

TensorNameByVariant(v) == <<"components_matrix", v>>

\* the name a reducer saves its trajectory tensor under
TensorName(v) == ComponentsName
FcdName == <<"FCD_matrix">>

\* -------------------------------------------------------------- state
VARIABLES
    variant,        \* which pipeline function runs
    brain_areas, t_phases, n_subjects,   \* its arguments
    pc,             \* position in the function
    n, t,           \* loop indices
    array,          \* the table convert_to_phases loaded last
    phases,         \* phase matrix of the current subject
    dFC,            \* the coherence buffer
    angle,          \* the angle handed to np.cos for each cell of dFC
    components,     \* trajectory tensor (pca_components, l_eigs, lle_components)
    eigen_vals,     \* eigenvalues of the last linalg.eig call
    dfc_output,     \* local of the same name; "unbound" before its assignment
    disk,           \* persisted files: name -> content
    error,          \* the exception that ended the run, or "none"
    reduced_components,   \* argument of functional_connectivity_dynamics
    FCD,            \* its result tensor
    subject,        \* its outer loop index
    fcd_pc          \* its position

vars == <<variant, brain_areas, t_phases, n_subjects, pc, n, t, array, phases,
          dFC, angle, components, eigen_vals, dfc_output, disk, error,
          reduced_components, FCD, subject, fcd_pc>>

\* the variables of functional_connectivity_dynamics
fcd == <<reduced_components, FCD, subject, fcd_pc>>

\* the variables of the four pipelines
pipeline == <<variant, brain_areas, t_phases, n_subjects, pc, n, t, array,
              phases, dFC, angle, components, eigen_vals, dfc_output, error>>

config == <<variant, brain_areas, t_phases, n_subjects>>

\* The area counts a run is started with.  Only the LLE pipeline treats
\* an area count above n_neighbors differently from one below it.
AreaCounts(v) ==
    IF v = "lle" THEN {SmallAreas, N_NEIGHBORS + 1} ELSE {SmallAreas}

NoFile == [rows |-> 0, cols |-> 0, nanCol |-> NoColumn, p0 |-> 0, f0 |-> 0, fr |-> 0]

\* State on entry of a pipeline function, after its np.full allocations
Entry ==
    /\ variant \in Variants
    /\ brain_areas \in AreaCounts(variant)
    /\ t_phases \in 0..MaxT
    /\ n_subjects \in 0..MaxSubjects
    /\ pc = "subject"
    /\ n = 0
    /\ t = 0
    /\ array = NoFile
    /\ phases = [a \in Areas(brain_areas) |-> [r \in 0..(t_phases - 1) |-> 0]]
    /\ dFC = ZeroMatrix(brain_areas)
    /\ angle = ZeroMatrix(brain_areas)
    /\ components = ZeroTensor(variant, n_subjects, t_phases, brain_areas)
    /\ eigen_vals = <<>>
    /\ dfc_output = "unbound"
    /\ error = "none"
    /\ reduced_components = <<>>
    /\ FCD = <<>>
    /\ subject = 0
    /\ fcd_pc = "idle"

\* a run into an empty output directory
Init ==
    /\ Entry
    /\ disk = <<>>

Raise(e) ==
    /\ pc' = "raised"
    /\ error' = e

\* for n in range(n_subjects): phases = convert_to_phases(paths[n], ...)
ConvertToPhases ==
    /\ pc = "subject"
    /\ n < n_subjects
    /\ \E file \in Files(t_phases, brain_areas) :
          /\ array' = file
          /\ IF ConvertOutcome(file, brain_areas, t_phases) = "ok"
             THEN /\ \E TR \in TRValues :
                        phases' = ConvertedPhases(file, brain_areas, t_phases, TR)
                  /\ disk' = Write(disk, PhasesName(n), phases')
                  /\ pc' = IF t_phases > 0 THEN "fill" ELSE "stored"
                  /\ UNCHANGED error
             ELSE /\ Raise(ConvertOutcome(file, brain_areas, t_phases))
                  /\ UNCHANGED <<phases, disk>>
    /\ t' = 0
    /\ UNCHANGED fcd
    /\ UNCHANGED <<config, n, dFC, angle, components, eigen_vals, dfc_output>>

\* the loops over i and z for timepoint t
BuildCoherence ==
    /\ pc = "fill"
    /\ LET buf == FillCells([dFC |-> dFC, angle |-> angle], phases, t, brain_areas, 0)
       IN  /\ dFC' = buf.dFC
           /\ angle' = buf.angle
    /\ pc' = "save"
    /\ UNCHANGED fcd
    /\ UNCHANGED <<config, n, t, array, phases, components, eigen_vals,
                   dfc_output, disk, error>>

\* dfc_output = ...; create_dir(dfc_output); np.savez(..., dFC)
SaveCoherence ==
    /\ pc = "save"
    /\ dfc_output' = "dFC"
    /\ disk' = Write(disk, DfcName(n, t), dFC)
    /\ pc' = IF variant = "dfc" THEN "stored" ELSE "reduce"
    /\ UNCHANGED fcd
    /\ UNCHANGED <<config, n, t, array, phases, dFC, angle, components,
                   eigen_vals, error>>

Store(vec) ==
    components' = [components EXCEPT ![n][t] = [fit |-> dFC, at |-> vec]]

ReducePCA ==
    /\ pc = "reduce"
    /\ variant = "pca"
    /\ IF PcaOutcome(dFC, brain_areas) = "ok"
       THEN /\ disk' = Write(disk, PcaResultsName(n, t), [fit |-> dFC])
            /\ Store(PcaVector(brain_areas))
            /\ pc' = "stored"
            /\ UNCHANGED error
       ELSE /\ Raise(PcaOutcome(dFC, brain_areas))
            /\ UNCHANGED <<disk, components>>
    /\ UNCHANGED fcd
    /\ UNCHANGED <<config, n, t, array, phases, dFC, angle, eigen_vals, dfc_output>>

ReduceEig ==
    /\ pc = "reduce"
    /\ variant = "eig"
    /\ IF EigOutcome(dFC) = "ok"
       THEN /\ \E vals \in EigenOutputs(brain_areas) :
                  /\ eigen_vals' = vals
                  /\ Store(LeadingEig(vals, brain_areas))
            /\ pc' = "stored"
            /\ UNCHANGED error
       ELSE /\ Raise(EigOutcome(dFC))
            /\ UNCHANGED <<components, eigen_vals>>
    /\ UNCHANGED fcd
    /\ UNCHANGED <<config, n, t, array, phases, dFC, angle, dfc_output, disk>>

ReduceLLE ==
    /\ pc = "reduce"
    /\ variant = "lle"
    /\ IF LleOutcome(dFC, brain_areas) = "ok"
       THEN /\ disk' = Write(disk, LleErrorName(n, t), [fit |-> dFC])
            /\ Store(LleVector(brain_areas))
            /\ pc' = "stored"
            /\ UNCHANGED error
       ELSE /\ Raise(LleOutcome(dFC, brain_areas))
            /\ UNCHANGED <<disk, components>>
    /\ UNCHANGED fcd
    /\ UNCHANGED <<config, n, t, array, phases, dFC, angle, eigen_vals, dfc_output>>

\* end of the body of the t loop: next timepoint, or next subject
NextIteration ==
    /\ pc = "stored"
    /\ IF t + 1 < t_phases
       THEN /\ t' = t + 1
            /\ pc' = "fill"
            /\ UNCHANGED n
       ELSE /\ n' = n + 1
            /\ t' = 0
            /\ pc' = "subject"
    /\ UNCHANGED fcd
    /\ UNCHANGED <<config, array, phases, dFC, angle, components, eigen_vals,
                   dfc_output, disk, error>>

\* after the n loop: save the tensor and return it (reducers), or
\* return dfc_output (dynamic_functional_connectivity)
Return ==
    /\ pc = "subject"
    /\ n >= n_subjects
    /\ IF variant = "dfc"
       THEN /\ IF dfc_output = "unbound"
               THEN Raise("UnboundLocalError")
               ELSE pc' = "returned" /\ UNCHANGED error
            /\ UNCHANGED disk
       ELSE /\ disk' = Write(disk, TensorName(variant), components)
            /\ pc' = "returned"
            /\ UNCHANGED error
    /\ UNCHANGED fcd
    /\ UNCHANGED <<config, n, t, array, phases, dFC, angle, components,
                   eigen_vals, dfc_output>>

Next ==
    \/ ConvertToPhases
    \/ BuildCoherence
    \/ SaveCoherence
    \/ ReducePCA
    \/ ReduceEig
    \/ ReduceLLE
    \/ NextIteration
    \/ Return

Spec == Init /\ [][Next]_vars

\* ------------------------- a run into a directory an earlier run used
ReducerVariants == Variants \ {"dfc"}

\* An earlier run of reducer v0 over S subjects whose every phase was pi:
\* its phase matrices, its coherence matrices (all cos(0)) and its tensor.
EarlierPhases(A, T) == [a \in Areas(A) |-> [r \in 0..(T - 1) |-> PI]]

EarlierMatrix(A) == [c \in Areas(A) \X Areas(A) |-> ONE]

EarlierVector(v0, A) ==
    CASE v0 = "pca" -> PcaVector(A)
      [] v0 = "lle" -> LleVector(A)
      [] OTHER      -> Column(0, A)

EarlierTensor(v0, S, T, A) ==
    [s \in 0..(S - 1) |-> [k \in 0..(T - 1) |->
        [fit |-> EarlierMatrix(A), at |-> EarlierVector(v0, A)]]]

\* Whether that run returned: its tables had at least two rows (a one-row
\* table is read 1-D) and LLE had more samples than neighbours.
Completes(v0, S, T, A) ==
    S = 0 \/ (T >= 2 /\ (v0 = "lle" => A > N_NEIGHBORS))

\* The output directory after that run
EarlierDirectory(v0, S, T, A) ==
    LET names == {TensorName(v0)}
                   \cup {PhasesName(s) : s \in 0..(S - 1)}
                   \cup {DfcName(s, k) : s \in 0..(S - 1), k \in 0..(T - 1)}
    IN  [x \in names |->
            IF x[1] = "phases" THEN EarlierPhases(A, T)
            ELSE IF x[1] = "dFC" THEN EarlierMatrix(A)
            ELSE EarlierTensor(v0, S, T, A)]

RerunInit ==
    /\ Entry
    /\ variant \in ReducerVariants
    /\ \E v0 \in ReducerVariants \ {variant} :
          /\ Completes(v0, n_subjects, t_phases, brain_areas)
          /\ disk = EarlierDirectory(v0, n_subjects, t_phases, brain_areas)

RerunSpec == RerunInit /\ [][Next]_vars

\* ---------------- the (subject, timepoint) iterations taken in any order
\* The reducers whose reduction is a function of the matrix alone here
OrderedVariants == {"pca", "lle"}

ReduceOutcome(v, M, A) == IF v = "pca" THEN PcaOutcome(M, A) ELSE LleOutcome(M, A)

ReduceVector(v, A) == IF v = "pca" THEN PcaVector(A) ELSE LleVector(A)

DiagnosticName(v, s, k) ==
    IF v = "pca" THEN PcaResultsName(s, k) ELSE LleErrorName(s, k)

\* components[s, k, :] = slot
StoreAt(tensor, s, k, slot) ==
    [s2 \in DOMAIN tensor |->
        [k2 \in DOMAIN tensor[s2] |->
            IF s2 = s /\ k2 = k THEN slot ELSE tensor[s2][k2]]]

\* a buffer cell by cell (the same function, held as a plain one)
Cells(M) == [c \in DOMAIN M |-> M[c]]

\* np.savez(dFC); reduce; json.dump; components[s, k, :] = ... for the
\* filled buffer
ReduceAndStore(st, filled, angles, v, A, s, k) ==
    [dFC        |-> filled,
     angle      |-> angles,
     disk       |-> Write(Write(st.disk, DfcName(s, k), filled),
                          DiagnosticName(v, s, k), [fit |-> filled]),
     components |-> StoreAt(st.components, s, k,
                            [fit |-> filled, at |-> ReduceVector(v, A)])]

FilledBuffer(st, buf, v, A, s, k) ==
    ReduceAndStore(st, Cells(buf.dFC), Cells(buf.angle), v, A, s, k)

\* The body of the t loop for (s, k) as one step on the shared buffer, the
\* tensor and the directory: fill the buffer from the subject's phases,
\* save it, reduce it, write the diagnostic record, store the vector.
Iteration(st, ph, v, A, s, k) ==
    FilledBuffer(st, FillCells([dFC |-> st.dFC, angle |-> st.angle], ph, k, A, 0),
                 v, A, s, k)

\* the tables whose conversion and reduction raise nothing
GoodFiles(T, A) ==
    { f \in Files(T, A) : /\ ConvertOutcome(f, A, T) = "ok"
                          /\ f.nanCol = NoColumn
                          /\ f.cols = A }

\* State after the phases of every subject were extracted and persisted;
\* consecutive subjects have different tables.
ReorderInit ==
    /\ Entry
    /\ variant \in OrderedVariants
    /\ variant = "lle" => brain_areas > N_NEIGHBORS
    /\ \E even \in GoodFiles(t_phases, brain_areas) :
          \E odd \in GoodFiles(t_phases, brain_areas) \ {even} :
              disk = [x \in {PhasesName(s) : s \in 0..(n_subjects - 1)} |->
                         PhasesOf(IF x[2] % 2 = 0 THEN even ELSE odd,
                                  brain_areas, t_phases)]

\* the run's variables after an iteration
Becomes(st, s, k) ==
    /\ ReduceOutcome(variant, st.dFC, brain_areas) = "ok"
    /\ dFC' = st.dFC
    /\ angle' = st.angle
    /\ disk' = st.disk
    /\ components' = st.components
    /\ n' = s
    /\ t' = k
    /\ phases' = disk[PhasesName(s)]

\* one iteration that has not run yet, whichever it is
RunIteration ==
    /\ pc = "subject"
    /\ \E s \in 0..(n_subjects - 1) : \E k \in 0..(t_phases - 1) :
          /\ DfcName(s, k) \notin DOMAIN disk
          /\ Becomes(Iteration([dFC |-> dFC, angle |-> angle, disk |-> disk,
                                components |-> components],
                               disk[PhasesName(s)], variant, brain_areas, s, k),
                     s, k)
    /\ dfc_output' = "dFC"
    /\ UNCHANGED fcd
    /\ UNCHANGED <<config, pc, array, eigen_vals, error>>

\* after the last iteration: save the tensor and return it
SaveTensor ==
    /\ pc = "subject"
    /\ \A s \in 0..(n_subjects - 1) : \A k \in 0..(t_phases - 1) :
          DfcName(s, k) \in DOMAIN disk
    /\ disk' = Write(disk, TensorName(variant), components)
    /\ pc' = "returned"
    /\ UNCHANGED fcd
    /\ UNCHANGED <<config, n, t, array, phases, dFC, angle, components,
                   eigen_vals, dfc_output, error>>

ReorderNext ==
    \/ RunIteration
    \/ SaveTensor

ReorderSpec == ReorderInit /\ [][ReorderNext]_vars

\* ------------------------------ functional_connectivity_dynamics alone
\* State on entry, after FCD = np.full(..., fill_value=0)
FCDInit ==
    /\ variant = "dfc"
    /\ brain_areas = 0
    /\ t_phases = 0
    /\ n_subjects = 0
    /\ pc = "idle"
    /\ n = 0
    /\ t = 0
    /\ array = NoFile
    /\ phases = <<>>
    /\ dFC = <<>>
    /\ angle = <<>>
    /\ components = <<>>
    /\ eigen_vals = <<>>
    /\ dfc_output = "unbound"
    /\ disk = <<>>
    /\ error = "none"
    /\ reduced_components \in Tensors(MaxSubjects, MaxT, FeatureLen)
    /\ FCD = [s \in 1..ShapeOf(reduced_components).n_subjects |->
                [t1 \in 1..ShapeOf(reduced_components).t_phases |->
                   [t2 \in 1..ShapeOf(reduced_components).t_phases |-> Zero]]]
    /\ subject = 0
    /\ fcd_pc = "loop"

\* one pass of the subject loop: the t1 and t2 loops for this subject
\* (index s of the code is s + 1 in the sequences here)
ComputeSubject ==
    /\ fcd_pc = "loop"
    /\ subject < ShapeOf(reduced_components).n_subjects
    /\ FCD' = [FCD EXCEPT ![subject + 1] =
                 [t1 \in 1..ShapeOf(reduced_components).t_phases |->
                    [t2 \in 1..ShapeOf(reduced_components).t_phases |->
                       FcdEntry(reduced_components, subject + 1, t1, t2)]]]
    /\ subject' = subject + 1
    /\ UNCHANGED <<reduced_components, fcd_pc, pipeline, disk>>

\* np.savez_compressed(..., 'FCD_matrix'), FCD); return FCD
SaveFCD ==
    /\ fcd_pc = "loop"
    /\ subject >= ShapeOf(reduced_components).n_subjects
    /\ disk' = Write(disk, FcdName, FCD)
    /\ fcd_pc' = "returned"
    /\ UNCHANGED <<reduced_components, FCD, subject, pipeline>>

FCDNext ==
    \/ ComputeSubject
    \/ SaveFCD

FCDSpec == FCDInit /\ [][FCDNext]_vars


\* =====================================================================
\* Properties of the pipelines (checked under Spec)
\* =====================================================================
Abs(x) == IF x < 0 THEN 0 - x ELSE x

Finite(x) == x # NaN

\* cos of the minimal angular distance between two finite phases,
\* straight from the table
MinimalDistance(p, q) ==
    IF Abs(p - q) > PI THEN 2 * PI - Abs(p - q) ELSE Abs(p - q)

ExpectedCoherence(p, q) ==
    IF Finite(p) /\ Finite(q) THEN CosTable[MinimalDistance(p, q) + 1] ELSE NaN

ExpectedMatrix(ph, tt, A) ==
    [c \in Areas(A) \X Areas(A) |-> ExpectedCoherence(ph[c[1]][tt], ph[c[2]][tt])]

\* C1: when the loops over (i, z) have run for (n, t), every entry of the
\* buffer is cos(2*pi - d) if d = |phases[i,t] - phases[z,t]| > pi and
\* cos(d) otherwise; for finite phases the angle handed to the cosine is
\* the minimal angular distance min(d, 2*pi - d), which lies in [0, pi].
C1_WrappedCosine ==
    pc = "save" =>
        \A i, z \in Areas(brain_areas) :
            LET p == phases[i][t]
                q == phases[z][t]
            IN  IF Finite(p) /\ Finite(q)
                THEN /\ angle[<<i, z>>] = MinimalDistance(p, q)
                     /\ angle[<<i, z>>] \in 0..PI
                     /\ dFC[<<i, z>>] =
                           IF Abs(p - q) > PI
                           THEN CosTable[(2 * PI - Abs(p - q)) + 1]
                           ELSE CosTable[Abs(p - q) + 1]
                ELSE dFC[<<i, z>>] = NaN

C1_Witness ==
    /\ pc = "save"
    /\ \E i, z \in Areas(brain_areas) :
          /\ Finite(phases[i][t]) /\ Finite(phases[z][t])
          /\ Abs(phases[i][t] - phases[z][t]) > PI
          /\ dFC[<<i, z>>] = CosTable[(2 * PI - Abs(phases[i][t] - phases[z][t])) + 1]

SymmetricUnitDiagonal(M, A) ==
    \A i, z \in Areas(A) :
        /\ FEq(M[<<i, z>>], M[<<z, i>>])
        /\ FEq(M[<<i, i>>], ONE)

IsDfcName(name) == name[1] = "dFC"

\* C2: every coherence matrix that is persisted or handed to a reducer is
\* exactly symmetric and has every diagonal entry equal to 1.0.
C2_SymmetricUnitDiagonal ==
    /\ \A name \in DOMAIN disk :
          IsDfcName(name) => SymmetricUnitDiagonal(disk[name], brain_areas)
    /\ pc = "reduce" => SymmetricUnitDiagonal(dFC, brain_areas)

\* C3: the matrix persisted (and reduced) for (n, t) is a function of
\* subject n's phases at timepoint t only: no entry is left over from an
\* earlier timepoint, an earlier subject or the initial zero fill.
C3_PersistedMatrixIsFresh ==
    /\ \A name \in DOMAIN disk :
          IsDfcName(name) =>
              disk[name] = ExpectedMatrix(disk[PhasesName(name[2])], name[3], brain_areas)
    /\ pc = "reduce" =>
          /\ dFC = ExpectedMatrix(phases, t, brain_areas)
          /\ disk[DfcName(n, t)] = dFC

\* a later (subject, timepoint) whose matrix differs from the one the
\* buffer held before
C3_Witness ==
    /\ pc = "reduce"
    /\ n > 0
    /\ t > 0
    /\ disk[DfcName(n, t)] # disk[DfcName(n, t - 1)]
    /\ disk[DfcName(n, t)] # disk[DfcName(n - 1, t)]
    /\ \A c \in DOMAIN dFC : Finite(dFC[c])

ShapeMatches(file) == file.rows = t_phases /\ file.cols = brain_areas

\* C6: convert_to_phases rejects with an error every table whose row count
\* differs from t_phases or whose column count differs from brain_areas; it
\* never returns a phase matrix built from such a table.
C6_ShapeMismatchRejected ==
    (array # NoFile /\ ~ShapeMatches(array)) =>
        /\ pc = "raised"
        /\ error \in {"IndexError", "ValueError"}

\* C7: when the LLE pipeline is run with brain_areas <= 12, the
\* configuration error is raised before anything has been written.
C7_ConfigErrorBeforeBatch ==
    (pc = "raised" /\ error = "ValueError: n_neighbors") => DOMAIN disk = {}

SubjectFailures == {"IndexError", "ValueError", "ValueError: NaN", "LinAlgError"}

\* C8: a failure while processing one subject does not abort the batch:
\* the run never ends on that failure with a later subject unprocessed.
C8_FailureIsolatedPerSubject ==
    ~(/\ variant # "dfc"
      /\ pc = "raised"
      /\ error \in SubjectFailures
      /\ n + 1 < n_subjects)

\* C9: the spectral variant stores the eigenvector column whose eigenvalue
\* is the largest returned by the solver, the first such column in the
\* solver's order when several tie; the stored vector has length brain_areas.
C9_LeadingEigenvector ==
    (pc = "stored" /\ variant = "eig") =>
        LET slot == components[n][t]
            col  == slot.at[1][2]
        IN  /\ Len(slot.at) = brain_areas
            /\ col \in 0..(brain_areas - 1)
            /\ \A k \in 1..brain_areas : slot.at[k] = <<k - 1, col>>
            /\ \A j \in 1..Len(eigen_vals) : eigen_vals[j] <= eigen_vals[col + 1]
            /\ \A j \in 1..col : eigen_vals[j] < eigen_vals[col + 1]

\* the maximum is tied, and its first occurrence is not the first entry
C9_Witness ==
    /\ pc = "stored"
    /\ variant = "eig"
    /\ LET col == components[n][t].at[1][2]
       IN  /\ col > 0
           /\ \E j \in (col + 2)..Len(eigen_vals) : eigen_vals[j] = eigen_vals[col + 1]

\* element of the reducer's output array that holds component c of area a:
\* components_[c, a] for PCA, lle[a, c] for LLE
ComponentOfArea(v, c, a) == IF v = "pca" THEN <<c, a>> ELSE <<a, c>>

Stacked(v, vec, A) ==
    /\ Len(vec) = 2 * A
    /\ \A a \in Areas(A) :
          /\ vec[a + 1] = ComponentOfArea(v, 0, a)
          /\ vec[A + a + 1] = ComponentOfArea(v, 1, a)

Interleaved(v, vec, A) ==
    /\ Len(vec) = 2 * A
    /\ \A a \in Areas(A) :
          /\ vec[2 * a + 1] = ComponentOfArea(v, 0, a)
          /\ vec[2 * a + 2] = ComponentOfArea(v, 1, a)

\* C10 as stated: for the linear and the manifold variant the vector at
\* [n, t, :] has length 2 * areas with the first component's values in
\* positions 0..areas-1 and the second's in areas..2*areas-1; for the
\* spectral variant it has length areas.
C10_StackedComponents ==
    pc = "stored" =>
        /\ variant \in {"pca", "lle"} => Stacked(variant, components[n][t].at, brain_areas)
        /\ variant = "eig" => Len(components[n][t].at) = brain_areas

\* C10 amended: the linear variant stacks the two components; the manifold
\* variant stores them interleaved per area (positions 2a and 2a+1 hold
\* area a's first and second coordinate); both have length 2 * areas, the
\* spectral variant has length areas.
C10_ComponentLayout ==
    pc = "stored" =>
        /\ variant = "pca" => Stacked(variant, components[n][t].at, brain_areas)
        /\ variant = "lle" => Interleaved(variant, components[n][t].at, brain_areas)
        /\ variant = "eig" => Len(components[n][t].at) = brain_areas

C10_Witness ==
    /\ pc = "stored"
    /\ variant = "lle"
    /\ components[n][t].at[2] = ComponentOfArea("lle", 1, 0)
    /\ components[n][t].fit = dFC

ConvertErrors == {"IndexError", "ValueError"}

\* the phase matrix read off the first t_phases rows and the first
\* brain_areas columns of a table
FirstRowsAndColumns(file) ==
    [a \in 0..(brain_areas - 1) |->
        [r \in 0..(t_phases - 1) |-> AnalyticPhase(file, r, a)]]

\* C12 as stated: when the loaded table has more rows than t_phases or
\* more columns than brain_areas, convert_to_phases raises no error and
\* returns the (brain_areas, t_phases) phase matrix of the first t_phases
\* rows and the first brain_areas columns.
C12_SilentlyTruncated ==
    (array # NoFile /\ (array.rows > t_phases \/ array.cols > brain_areas)) =>
        /\ error \notin ConvertErrors
        /\ phases = FirstRowsAndColumns(array)

\* C12 amended: a table with t_phases >= 2 rows and more columns than
\* brain_areas is silently truncated to its first brain_areas columns and
\* no error is raised; a table with more rows than t_phases is never
\* truncated: the call raises (ValueError from the slice assignment, or
\* IndexError when the table has a single row) and returns no matrix.
C12_ColumnsTruncatedRowsRejected ==
    array # NoFile =>
        /\ (array.rows = t_phases /\ t_phases >= 2 /\ array.cols > brain_areas) =>
              /\ error \notin ConvertErrors
              /\ phases = FirstRowsAndColumns(array)
              /\ DOMAIN phases = 0..(brain_areas - 1)
              /\ \A a \in DOMAIN phases : DOMAIN phases[a] = 0..(t_phases - 1)
        /\ array.rows > t_phases =>
              /\ pc = "raised"
              /\ error = IF array.rows < 2 THEN "IndexError" ELSE "ValueError"
              /\ PhasesName(n) \notin DOMAIN disk

\* a table with an extra column went through and its subject was processed
C12_Witness ==
    /\ array.cols > brain_areas
    /\ array.rows = t_phases
    /\ pc = "stored"
    /\ disk[PhasesName(n)] = FirstRowsAndColumns(array)
    /\ \E a \in DOMAIN phases : \E r \in DOMAIN phases[a] : phases[a][r] # 0

\* C13: the band-pass pre-filter is an optional stage that is off by
\* default: a conversion leaves the phases of the unfiltered columns,
\* whatever TR is, and there is a configuration (brain_areas, t_phases, TR)
\* under which convert_to_phases applies filter_signal to each column.
C13_OptionalFilter ==
    /\ (array # NoFile /\ error \notin ConvertErrors) =>
          \A tr \in TRValues :
              /\ phases = PhasesOf(array, brain_areas, t_phases)
              /\ phases = ConvertedPhases(array, brain_areas, t_phases, tr)
    /\ \E v \in Variants : \E A \in AreaCounts(v) : \E T \in 0..MaxT :
          \E tr \in TRValues : UsesFilter(A, T, tr)

\* C14: dynamic_functional_connectivity returns the dFC output directory
\* path for every n_subjects >= 0 and t_phases >= 0 for which phase
\* extraction succeeds, also when no (subject, timepoint) pair is processed.
C14_ReturnsOutputPath ==
    (variant = "dfc" /\ pc \in {"returned", "raised"} /\ error \notin ConvertErrors) =>
        /\ pc = "returned"
        /\ dfc_output = "dFC"

\* --- the order in which a run writes its artifacts
PhaseArtifact(s) == <<"phases", s>>
CoherenceArtifact(s, k) == <<"dFC", s, k>>
DiagnosticArtifacts(s, k) ==
    IF variant = "pca" THEN {<<"PCA_results", s, k>>}
    ELSE IF variant = "lle" THEN {<<"LLE_error", s, k>>}
    ELSE {}
TensorArtifact == <<"components_matrix">>

TimepointArtifacts(s, k) == {CoherenceArtifact(s, k)} \cup DiagnosticArtifacts(s, k)

SubjectArtifacts(s) ==
    {PhaseArtifact(s)} \cup UNION {TimepointArtifacts(s, k) : k \in 0..(t_phases - 1)}

\* everything that precedes subject s
BeforeSubject(s) == UNION {SubjectArtifacts(s2) : s2 \in 0..(s - 1)}

\* everything that precedes the coherence matrix of (s, k)
BeforeTimepoint(s, k) ==
    BeforeSubject(s) \cup {PhaseArtifact(s)}
        \cup UNION {TimepointArtifacts(s, k2) : k2 \in 0..(k - 1)}

ReducerErrors ==
    {"ValueError: NaN", "ValueError: n_components", "ValueError: n_neighbors",
     "LinAlgError"}

\* The artifacts that precede the run's position in the fixed order:
\* phases_n, then for t = 0, 1, ... the coherence matrix of (n, t) and the
\* diagnostic record of (n, t), then subject n + 1, and the trajectory
\* tensor after the last subject.
WrittenSoFar ==
    IF pc = "subject" THEN BeforeSubject(n)
    ELSE IF pc \in {"fill", "save"} THEN BeforeTimepoint(n, t)
    ELSE IF pc = "reduce" THEN BeforeTimepoint(n, t) \cup {CoherenceArtifact(n, t)}
    ELSE IF pc = "stored" THEN BeforeTimepoint(n, t) \cup TimepointArtifacts(n, t)
    ELSE IF pc = "returned"
         THEN BeforeSubject(n) \cup (IF variant = "dfc" THEN {} ELSE {TensorArtifact})
    ELSE IF error \in ReducerErrors
         THEN BeforeTimepoint(n, t) \cup {CoherenceArtifact(n, t)}
    ELSE BeforeSubject(n)

\* C15: the artifacts are written in a fixed order.  Every step writes at
\* most one artifact and at every point of a run the directory holds
\* exactly the artifacts that precede that point in the order: phases_n
\* before the coherence matrices of subject n, the coherence matrix of
\* (n, t) before its diagnostic record, all of (n, t) before (n, t+1) and
\* before subject n+1, and 'components_matrix' only once every (n, t) has
\* been reduced; a run that raised has written no tensor and the artifacts
\* written before the failure are all there.
C15_FixedWriteOrder ==
    /\ DOMAIN disk = WrittenSoFar
    /\ TensorArtifact \in DOMAIN disk =>
          /\ pc = "returned"
          /\ n = n_subjects
          /\ \A s \in 0..(n_subjects - 1) : \A k \in 0..(t_phases - 1) :
                /\ components[s][k].fit = disk[CoherenceArtifact(s, k)]
                /\ components[s][k] # ZeroSlot(FeatureLength(variant, brain_areas))
    /\ pc = "raised" => TensorArtifact \notin DOMAIN disk

\* a reducer raised on the second subject: the first subject's artifacts
\* and the failing timepoint's coherence matrix are there, no tensor is
C15_Witness ==
    /\ pc = "raised"
    /\ variant \in {"pca", "lle"}
    /\ error \in ReducerErrors
    /\ n > 0
    /\ t_phases > 1
    /\ DiagnosticArtifacts(0, t_phases - 1) \subseteq DOMAIN disk
    /\ CoherenceArtifact(n, t) \in DOMAIN disk
    /\ DiagnosticArtifacts(n, t) \cap DOMAIN disk = {}
    /\ TensorArtifact \notin DOMAIN disk

\* --- runs sharing one output directory (checked under RerunSpec)
TensorFiles == {x \in DOMAIN disk : x[1] = "components_matrix"}

\* the tensor an earlier run of another variant left
EarlierTensors ==
    {EarlierTensor(v0, n_subjects, t_phases, brain_areas) :
        v0 \in (Variants \ {"dfc", variant})}

\* C16 as stated: after a reducer run into a directory an earlier reducer
\* run used, the only trajectory tensor in the directory is this last
\* run's: the earlier one is overwritten, never kept alongside.
C16_OnlyLastRunsTensor ==
    pc \in {"returned", "raised"} =>
        /\ TensorFiles = {TensorArtifact}
        /\ disk[TensorArtifact] = components

\* C16 amended: the directory never holds more than the one tensor file
\* 'components_matrix'; a run that completes replaces the earlier run's
\* tensor, and its phases and coherence matrices, by its own; until then,
\* and for good when the run raises, the tensor in the directory is still
\* the earlier run's.
C16_LastCompletedRunsTensor ==
    /\ TensorFiles = {TensorArtifact}
    /\ pc = "returned" =>
          /\ disk[TensorArtifact] = components
          /\ \A s \in 0..(n_subjects - 1) :
                /\ disk[PhaseArtifact(s)] # EarlierPhases(brain_areas, t_phases)
                /\ \A k \in 0..(t_phases - 1) :
                      /\ disk[CoherenceArtifact(s, k)] = components[s][k].fit
                      /\ disk[CoherenceArtifact(s, k)] # EarlierMatrix(brain_areas)
    /\ pc # "returned" => disk[TensorArtifact] \in EarlierTensors

\* a run over two subjects completed in a directory that held another
\* variant's tensor
C16_Witness ==
    /\ pc = "returned"
    /\ n_subjects > 1
    /\ t_phases > 1
    /\ disk[TensorArtifact] = components
    /\ disk[TensorArtifact] \notin EarlierTensors
    /\ components[1][1].fit = disk[CoherenceArtifact(1, 1)]

\* --- iterations in any order (checked under ReorderSpec)
Pairs == (0..(n_subjects - 1)) \X (0..(t_phases - 1))

\* what the iteration (s, k) leaves in its slot and under its names,
\* given the phases of subject s only
OwnMatrix(s, k) == ExpectedMatrix(disk[PhaseArtifact(s)], k, brain_areas)

\* the state after the first count iterations of the loops' order
RECURSIVE SequentialRun(_)
SequentialRun(count) ==
    IF count = 0
    THEN [dFC        |-> ZeroMatrix(brain_areas),
          angle      |-> ZeroMatrix(brain_areas),
          disk       |-> [x \in {PhaseArtifact(s) : s \in 0..(n_subjects - 1)} |-> disk[x]],
          components |-> ZeroTensor(variant, n_subjects, t_phases, brain_areas)]
    ELSE Iteration(SequentialRun(count - 1),
                   disk[PhaseArtifact((count - 1) \div t_phases)], variant,
                   brain_areas, (count - 1) \div t_phases, (count - 1) % t_phases)

SameAs(result) ==
    /\ components = result.components
    /\ disk = Write(result.disk, TensorArtifact, result.components)

LeftByStep(s, k, own) ==
    /\ disk[CoherenceArtifact(s, k)] = own
    /\ components[s][k].fit = own
    /\ components[s][k].at =
          IF variant = "pca" THEN Row(0, brain_areas) \o Row(1, brain_areas)
          ELSE [j \in 1..(2 * brain_areas) |-> <<(j - 1) \div 2, (j - 1) % 2>>]
    /\ \A d \in DiagnosticArtifacts(s, k) :
          d \in DOMAIN disk /\ disk[d] = [fit |-> own]

\* C11: with one (subject, timepoint) iteration as an atomic step, in
\* whatever order the steps are taken: a step that has run has left in its
\* slot [n, t, :] and under its own names what it computes from its own
\* subject's phases alone, a step that has not run has left nothing, and
\* when all have run the tensor and the persisted artifacts are those of
\* the run in the loops' order.
C11_OrderIndependent ==
    /\ \A p \in Pairs :
          IF CoherenceArtifact(p[1], p[2]) \in DOMAIN disk
          THEN LeftByStep(p[1], p[2], OwnMatrix(p[1], p[2]))
          ELSE /\ components[p[1]][p[2]] = ZeroSlot(FeatureLength(variant, brain_areas))
               /\ DiagnosticArtifacts(p[1], p[2]) \cap DOMAIN disk = {}
    /\ pc = "returned" => SameAs(SequentialRun(n_subjects * t_phases))

\* all steps have run, the first of the loops' order last and after a
\* step of the last subject
C11_Witness ==
    /\ pc = "returned"
    /\ n_subjects > 1
    /\ t_phases > 1
    /\ n = 0
    /\ t = 0
    /\ dFC = disk[CoherenceArtifact(0, 0)]
    /\ dFC # disk[CoherenceArtifact(n_subjects - 1, t_phases - 1)]
    /\ SameAs(SequentialRun(n_subjects * t_phases))


\* =====================================================================
\* Properties of functional_connectivity_dynamics (checked under FCDSpec)
\* =====================================================================
RECURSIVE InnerProduct(_, _, _)
InnerProduct(v, w, k) ==
    IF k = 0 THEN 0 ELSE InnerProduct(v, w, k - 1) + v[k] * w[k]

SquaredLength(v) == InnerProduct(v, v, Len(v))

NonZero(v) == \E k \in 1..Len(v) : v[k] # 0

\* r is sqrt(x) rounded to the nearest integer
IsRoundedSqrt(r, x) ==
    /\ r >= 0
    /\ (2 * r - 1) * (2 * r - 1) <= 4 * x
    /\ 4 * x <= (2 * r + 1) * (2 * r + 1)

\* q is a / b rounded to the nearest integer, b > 0
IsRoundedQuotient(q, a, b) == Abs(2 * (q * b - a)) <= b

\* e is dot(v, w) / (|v| * |w|) as float64 computes it for nonzero v, w:
\* each norm, their product and the quotient rounded in turn
IsCosineOf(e, v, w) ==
    LET nv   == Norm(v)
        nw   == Norm(w)
        prod == NormProduct(v, w)
    IN  /\ e.kind = "finite"
        /\ IsRoundedSqrt(nv, SquaredLength(v) * SCALE * SCALE)
        /\ IsRoundedSqrt(nw, SquaredLength(w) * SCALE * SCALE)
        /\ prod > 0
        /\ IsRoundedQuotient(prod, nv * nw, SCALE)
        /\ IsRoundedQuotient(e.val, InnerProduct(v, w, Len(v)) * SCALE * SCALE, prod)

Timepoints == 1..ShapeOf(reduced_components).t_phases

AllNonZero(s) == \A k \in Timepoints : NonZero(reduced_components[s][k])

\* C4 as stated: for every subject whose feature vectors are all nonzero,
\* FCD[s] is symmetric and has unit diagonal, FCD[s,t,t] == 1, each entry
\* being dot(v_t1, v_t2) / (|v_t1| * |v_t2|) of that subject's own vectors.
C4_ExactUnitDiagonal ==
    \A s \in 1..subject :
        AllNonZero(s) =>
            \A t1, t2 \in Timepoints :
                /\ FCD[s][t1][t2] = FCD[s][t2][t1]
                /\ FCD[s][t1][t1] = One
                /\ IsCosineOf(FCD[s][t1][t2],
                              reduced_components[s][t1], reduced_components[s][t2])

\* C4 amended: FCD[s] is exactly symmetric and each entry is the float64
\* value of dot(v_t1, v_t2) / (|v_t1| * |v_t2|) of that subject's own
\* vectors; the diagonal is 1 up to the rounding of the norm, of the
\* product of norms and of the quotient (here: within 2 counts of 1/SCALE).
C4_CosineSimilarity ==
    \A s \in 1..subject :
        AllNonZero(s) =>
            \A t1, t2 \in Timepoints :
                /\ FCD[s][t1][t2] = FCD[s][t2][t1]
                /\ FCD[s][t1][t1].kind = "finite"
                /\ Abs(FCD[s][t1][t1].val - SCALE) <= 2
                /\ IsCosineOf(FCD[s][t1][t2],
                              reduced_components[s][t1], reduced_components[s][t2])

\* both subjects processed, with different trajectories: one has two
\* vectors that are neither parallel nor orthogonal, the other a diagonal
\* entry that rounding leaves off 1.0
C4_Witness ==
    /\ fcd_pc = "returned"
    /\ disk[FcdName] = FCD
    /\ \E s1, s2 \in 1..subject :
          /\ reduced_components[s1] # reduced_components[s2]
          /\ AllNonZero(s1)
          /\ AllNonZero(s2)
          /\ \E t1, t2 \in Timepoints :
                /\ FCD[s1][t1][t2].val > 0
                /\ FCD[s1][t1][t2].val < SCALE - 2
          /\ \E t1 \in Timepoints : FCD[s2][t1][t1] # One

\* C5: when the feature vector of subject s at timepoint t has zero norm,
\* every entry FCD[s,t,*] and FCD[s,*,t] is NaN, never 0 or another finite
\* value; the entries of FCD[s] between nonzero vectors are the cosine
\* similarities they would be anyway, and so are other subjects' entries.
C5_ZeroNormIsNaN ==
    \A s \in 1..subject :
        \A t1, t2 \in Timepoints :
            IF NonZero(reduced_components[s][t1]) /\ NonZero(reduced_components[s][t2])
            THEN IsCosineOf(FCD[s][t1][t2],
                            reduced_components[s][t1], reduced_components[s][t2])
            ELSE FCD[s][t1][t2] = NaNValue

\* a zero vector next to a nonzero one in one subject, and another subject
\* with no zero vector
C5_Witness ==
    /\ fcd_pc = "returned"
    /\ \E s \in 1..subject :
          /\ \E tz, t1 \in Timepoints :
                /\ ~NonZero(reduced_components[s][tz])
                /\ NonZero(reduced_components[s][t1])
                /\ FCD[s][tz][t1] = NaNValue
                /\ FCD[s][t1][tz] = NaNValue
                /\ FCD[s][tz][tz] = NaNValue
                /\ FCD[s][t1][t1].kind = "finite"
          /\ \E s2 \in 1..subject :
                /\ s2 # s
                /\ AllNonZero(s2)
                /\ \A k \in Timepoints : FCD[s2][k][k].kind = "finite"

====
